---- MODULE Spec2Model ----
(***************************************************************************)
(* Model of yaadv's batch download: main (src/bin/yaadv.rs) loads the      *)
(* session token and calls download_inputs, which creates the parent       *)
(* directory of the first input, calls fetch_inputs (src/api.rs) for the   *)
(* whole list, and then consumes the results one by one.                   *)
(***************************************************************************)
EXTENDS Integers, Sequences, FiniteSets, TLC

\* Days are 1..MaxDay (main uses 1..=25, or the one day given on the command line).
MaxDay == 3

Days == 1..MaxDay

Years == {2023}

\* Response bodies the server may send with a 2xx status.
Bodies == {"a", "c"}

\* Secrets::load().session_token is an Option<String>.
NoToken == "<none>"

Tokens == {"tok"}

\* The token of a second run made with another credential.
OtherTokens == {"kot"}

\* inputs.formatted_path / cfg.path is an Option<&str>: absent, or a template.
NoTemplate == "<none>"

Templates == {NoTemplate, "{year}/day{day}.txt"}

VARIABLES
    session_token,   \* the credential store's content (Secrets::load)
    inputs,          \* the Vec<AdvInput> handed to download_inputs
    formatted_path,  \* the path template of the inputs
    pc,              \* position of the single thread
    out,             \* fetch_inputs' result vector
    reqs,            \* HTTP requests issued so far, with their replies
    k,               \* position of download_inputs' loop over the results
    out_err,         \* download_inputs' accumulated warnings
    dirs,            \* directories existing on disk
    files,           \* files on disk: path -> content
    result,          \* what the batch returned to main's caller
    log,             \* history of the operations performed, in order
    run,             \* which run of the program this is
    start,           \* the disk before the first run
    first            \* what the first run received and left, once it is over

vars == <<session_token, inputs, formatted_path, pc, out, reqs, k, out_err,
          dirs, files, result, log, run, start, first>>

----------------------------------------------------------------------------
(* AdvInput: its URL and its path *)

AdvInput(day, year) == [day |-> day, year |-> year]

\* Day ranges lo..hi, in either direction, and the empty list.
Range(lo, hi) == [j \in 1..(hi - lo + 1) |-> lo + j - 1]

Reverse(s) == [j \in 1..Len(s) |-> s[Len(s) + 1 - j]]

DayLists ==
    {<<>>} \cup {Range(lo, hi) : lo \in Days, hi \in Days}
           \cup {Reverse(Range(lo, hi)) : lo \in Days, hi \in Days}

InputLists ==
    {[j \in 1..Len(ds) |-> AdvInput(ds[j], y)] : ds \in DayLists, y \in Years}

request_url(input) ==
    "https://adventofcode.com/" \o ToString(input.year) \o "/day/"
        \o ToString(input.day) \o "/input"

\* <base-dir>/<year>/<day>/input.txt, or the template with year and day filled in.
\* A path is its directory (relative to the base directory) and its file name.
path(input, template) ==
    IF template = NoTemplate
    THEN [dir |-> <<input.year, input.day>>, name |-> "input.txt"]
    ELSE [dir |-> <<input.year>>, name |-> "day" \o ToString(input.day) \o ".txt"]

parent(p) == p.dir

\* The directories create_dir_all(d) makes exist: d and its ancestors.
Ancestors(d) == {SubSeq(d, 1, n) : n \in 0..Len(d)}

----------------------------------------------------------------------------
(* The network: what one request may come back with *)

\* A reply with a status line, or no reply at all (timeout, connection error).
Replies ==
    {[net |-> "response", status |-> 200, body |-> b, readable |-> TRUE] : b \in Bodies}
    \cup {[net |-> "response", status |-> 200, body |-> "a", readable |-> FALSE]}
    \cup {[net |-> "response", status |-> c, body |-> "", readable |-> TRUE] : c \in {404, 500}}
    \cup {[net |-> "failure", status |-> 0, body |-> "", readable |-> TRUE]}

Pending == [net |-> "pending", status |-> 0, body |-> "", readable |-> TRUE]

\* Result<String>: Ok(body), or an error of one of three kinds.
Ok(body) == [kind |-> "Ok", code |-> 0, body |-> body]

ErrStatus(code) == [kind |-> "Status", code |-> code, body |-> ""]

ErrTransport == [kind |-> "Transport", code |-> 0, body |-> ""]

ErrIo == [kind |-> "Io", code |-> 0, body |-> ""]

\* agent.get(url).set("Cookie", ..).call(): ureq turns a status >= 400 into
\* Error::Status and a failed exchange into Error::Transport.
Call(reply) ==
    IF reply.net = "failure" THEN ErrTransport
    ELSE IF reply.status >= 400 THEN ErrStatus(reply.status)
    ELSE Ok(reply.body)

\* .and_then(|resp| resp.into_string()): reading the body may fail.
IntoString(res, reply) ==
    IF res.kind = "Ok" /\ ~reply.readable THEN ErrIo ELSE res

FetchBody(reply) == IntoString(Call(reply), reply)

Cookie(token) == "session=" \o token

\* A mutant of Push: an error is not recorded.
PushOkOnly(o, body) == IF body.kind = "Ok" THEN Append(o, body) ELSE o

\* out.push(body)
Push(o, body) == Append(o, body)

----------------------------------------------------------------------------
(* download_inputs' handling of one result *)

\* A mutant of Classify: every error status is a warning.
ClassifyAllSoft(resp) ==
    IF resp.kind = "Ok" THEN "write"
    ELSE IF resp.kind = "Status" THEN "warn"
    ELSE "ignore"

\* A mutant of Classify: every error status aborts.
ClassifyAllHard(resp) ==
    IF resp.kind = "Ok" THEN "write"
    ELSE IF resp.kind = "Status" THEN "bail"
    ELSE "ignore"

\* match resp { Ok => write, Err => if let Status(code, _) { 404 => warn, _ => bail } }
\* An error that is no Status matches nothing: the loop goes on to the next result.
Classify(resp) ==
    IF resp.kind = "Ok" THEN "write"
    ELSE IF resp.kind = "Status"
         THEN (IF resp.code = 404 THEN "warn" ELSE "bail")
    ELSE "ignore"

Warning(input) ==
    "Error 404: Day " \o ToString(input.day)
        \o " is either not unlocked yet or doesn't exist"

\* A mutant of StatusText: the text shows the request's Cookie header.
StatusTextWithCookie(input, code) ==
    request_url(input) \o " [Cookie: " \o Cookie(session_token)
        \o "]: status code " \o ToString(code)

\* ureq's Display of Error::Status
StatusText(input, code) ==
    request_url(input) \o ": status code " \o ToString(code)

BailText(input, code) ==
    "unhandled error while downloading input files!\n" \o StatusText(input, code)

\* A mutant of WriteAll: the file is opened for appending.
WriteAppend(fs, p, body) ==
    (p :> (IF p \in DOMAIN fs THEN fs[p] \o body ELSE body)) @@ fs

\* File::create(p) then write_all(body): the file holds exactly body.
\* fetch_inputs has already read the body into a String (api.rs:21), so the
\* into_string at yaadv.rs:29 has nothing left to read and hands it on as is.
WriteAll(fs, p, body) == (p :> body) @@ fs

\* File::create(p) succeeded and write_all failed: the file is left truncated.
Truncate(fs, p) == (p :> "") @@ fs

----------------------------------------------------------------------------
(* Results of the batch *)

NoResult == [tag |-> "none", warnings |-> <<>>, error |-> ""]

Completed(warnings) == [tag |-> "Ok", warnings |-> warnings, error |-> ""]

Failed(msg) == [tag |-> "Err", warnings |-> <<>>, error |-> msg]

NoTokenText == "No session token found!\nPlease add a sesssion token first"

NoInputText == "no input file to download"

Event(op, idx) == [op |-> op, idx |-> idx]

\* A mutant of HasToken: an absent token is taken as a token.
HasTokenAlways(token) == TRUE

\* Secrets::load().session_token.context(..)?
HasToken(token) == token # NoToken

\* A mutant of EnsureDir: an empty list falls back to a default directory.
EnsureDirDefault(ins, template) ==
    IF Len(ins) = 0 THEN [some |-> TRUE, dir |-> <<0>>]
    ELSE [some |-> TRUE, dir |-> parent(path(ins[1], template))]

\* inputs.iter().next().context(..)?.path().parent(): the directory to create,
\* if there is a first input.
EnsureDir(ins, template) ==
    IF Len(ins) = 0 THEN [some |-> FALSE, dir |-> <<>>]
    ELSE [some |-> TRUE, dir |-> parent(path(ins[1], template))]

----------------------------------------------------------------------------
(* Initial states *)

NoFiles == [p \in {} |-> ""]

AllPaths(template) == {path(AdvInput(d, y), template) : d \in Days, y \in Years}

\* The disk before the run: nothing but the base directory; the year
\* directories; every directory of the tree; or the tree left by an earlier run.
InitDisks(template) ==
    LET yearDirs == {<<>>} \cup {<<y>> : y \in Years}
        allDirs  == yearDirs \cup {<<y, d>> : y \in Years, d \in Days}
    IN  { [dirs |-> {<<>>}, files |-> NoFiles],
          [dirs |-> yearDirs, files |-> NoFiles],
          [dirs |-> allDirs, files |-> NoFiles],
          [dirs |-> allDirs, files |-> [p \in AllPaths(template) |-> "old"]] }

\* No first run is over yet.
NoFirst ==
    [replies |-> <<>>, files |-> NoFiles, result |-> NoResult,
     out_err |-> <<>>, log |-> <<>>]

Init ==
    /\ session_token \in Tokens \cup {NoToken}
    /\ inputs \in InputLists
    /\ formatted_path \in Templates
    /\ \E disk \in InitDisks(formatted_path) :
          /\ dirs = disk.dirs
          /\ files = disk.files
          /\ start = disk
    /\ run = "first"
    /\ first = NoFirst
    /\ pc = "main"
    /\ out = <<>>
    /\ reqs = <<>>
    /\ k = 0
    /\ out_err = <<>>
    /\ result = NoResult
    /\ log = <<>>

----------------------------------------------------------------------------
(* main *)

\* No session token: main returns the error before download_inputs is called.
MainNoToken ==
    /\ pc = "main"
    /\ ~HasToken(session_token)
    /\ pc' = "aborted"
    /\ result' = Failed(NoTokenText)
    /\ UNCHANGED <<run, start, first, session_token, inputs, formatted_path, out, reqs, k, out_err,
                   dirs, files, log>>

MainCallDownload ==
    /\ pc = "main"
    /\ HasToken(session_token)
    /\ pc' = "download"
    /\ UNCHANGED <<run, start, first, session_token, inputs, formatted_path, out, reqs, k, out_err,
                   dirs, files, result, log>>

----------------------------------------------------------------------------
(* download_inputs, before the loop *)

DownloadNoInput ==
    /\ pc = "download"
    /\ ~EnsureDir(inputs, formatted_path).some
    /\ pc' = "aborted"
    /\ result' = Failed(NoInputText)
    /\ UNCHANGED <<run, start, first, session_token, inputs, formatted_path, out, reqs, k, out_err,
                   dirs, files, log>>

CreateDirAll ==
    /\ pc = "download"
    /\ EnsureDir(inputs, formatted_path).some
    /\ LET d == EnsureDir(inputs, formatted_path).dir
       IN  /\ dirs' = dirs \cup Ancestors(d)
           /\ log' = Append(log, Event("mkdir", 0))
    /\ pc' = "fetch"
    /\ UNCHANGED <<run, start, first, session_token, inputs, formatted_path, out, reqs, k, out_err,
                   files, result>>

\* A mutant of CreateDirAllFails: the error is dropped and the batch goes on.
CreateDirAllFailsIgnored ==
    /\ pc = "download"
    /\ EnsureDir(inputs, formatted_path).some
    /\ EnsureDir(inputs, formatted_path).dir \notin dirs
    /\ pc' = "fetch"
    /\ log' = Append(log, Event("mkdir_err", 0))
    /\ UNCHANGED <<run, start, first, session_token, inputs, formatted_path, out, reqs, k, out_err,
                   dirs, files, result>>

\* create_dir_all fails (a missing directory cannot be created): the ? returns.
\* The ancestors it created before failing stay.
CreateDirAllFails ==
    /\ pc = "download"
    /\ EnsureDir(inputs, formatted_path).some
    /\ LET d == EnsureDir(inputs, formatted_path).dir
       IN  /\ d \notin dirs
           /\ \E n \in 0..(Len(d) - 1) : dirs' = dirs \cup Ancestors(SubSeq(d, 1, n))
    /\ pc' = "aborted"
    /\ result' = Failed("io: create_dir_all")
    /\ log' = Append(log, Event("mkdir_err", 0))
    /\ UNCHANGED <<run, start, first, session_token, inputs, formatted_path, out, reqs, k, out_err,
                   files>>

----------------------------------------------------------------------------
(* fetch_inputs *)

\* A mutant of FetchCall: the request is sent without waiting for its reply.
FetchCallNoWait ==
    /\ pc = "fetch"
    /\ Len(reqs) < Len(inputs)
    /\ LET n == Len(reqs) + 1
       IN  /\ reqs' = Append(reqs, [input |-> inputs[n],
                                    url |-> request_url(inputs[n]),
                                    cookie |-> Cookie(session_token),
                                    reply |-> Pending])
           /\ log' = Append(log, Event("request", n))
    /\ UNCHANGED <<run, start, first, session_token, inputs, formatted_path, pc, out, k, out_err,
                   dirs, files, result>>

\* The next input of `for input in inputs`: one request is issued for it.
FetchCall ==
    /\ pc = "fetch"
    /\ Len(reqs) < Len(inputs)
    /\ LET n == Len(reqs) + 1
       IN  /\ reqs' = Append(reqs, [input |-> inputs[n],
                                    url |-> request_url(inputs[n]),
                                    cookie |-> Cookie(session_token),
                                    reply |-> Pending])
           /\ log' = Append(log, Event("request", n))
    /\ pc' = "call"
    /\ UNCHANGED <<run, start, first, session_token, inputs, formatted_path, out, k, out_err,
                   dirs, files, result>>

\* What the server may answer to the request in flight: anything in the first
\* run, and in a second run what it answered to the same request of the first.
Answers ==
    IF run # "first" /\ Len(reqs) <= Len(first.replies)
    THEN {first.replies[Len(reqs)]}
    ELSE Replies

\* A mutant of FetchReturn: a request that failed is sent again.
FetchReturnRetry ==
    /\ pc = "call"
    /\ \E reply \in Answers :
          IF FetchBody(reply).kind = "Ok"
          THEN /\ reqs' = [reqs EXCEPT ![Len(reqs)].reply = reply]
               /\ out' = Push(out, FetchBody(reply))
               /\ log' = Append(log, Event("response", Len(reqs)))
               /\ pc' = "fetch"
          ELSE /\ reqs' = Append([reqs EXCEPT ![Len(reqs)].reply = reply],
                                 [reqs[Len(reqs)] EXCEPT !.reply = Pending])
               /\ out' = out
               /\ log' = log \o <<Event("response", Len(reqs)),
                                  Event("request", Len(reqs))>>
               /\ pc' = "call"
    /\ UNCHANGED <<run, start, first, session_token, inputs, formatted_path, k, out_err,
                   dirs, files, result>>

\* The blocking call returns, and its result is pushed.
FetchReturn ==
    /\ pc = "call"
    /\ \E reply \in Answers :
          /\ reqs' = [reqs EXCEPT ![Len(reqs)].reply = reply]
          /\ out' = Push(out, FetchBody(reply))
    /\ log' = Append(log, Event("response", Len(reqs)))
    /\ pc' = "fetch"
    /\ UNCHANGED <<run, start, first, session_token, inputs, formatted_path, k, out_err,
                   dirs, files, result>>

\* A mutant of FetchDone: the loop is left at the first request that failed.
FetchDoneAtError ==
    /\ pc = "fetch"
    /\ \/ Len(reqs) = Len(inputs)
       \/ Len(out) > 0 /\ out[Len(out)].kind # "Ok"
    /\ pc' = "consume"
    /\ k' = 1
    /\ UNCHANGED <<run, start, first, session_token, inputs, formatted_path, out, reqs, out_err,
                   dirs, files, result, log>>

\* The loop is over: fetch_inputs returns out, and download_inputs' loop starts.
FetchDone ==
    /\ pc = "fetch"
    /\ Len(reqs) = Len(inputs)
    /\ pc' = "consume"
    /\ k' = 1
    /\ UNCHANGED <<run, start, first, session_token, inputs, formatted_path, out, reqs, out_err,
                   dirs, files, result, log>>

----------------------------------------------------------------------------
(* download_inputs' loop over (inputs[k], out[k]) *)

AtItem(a) ==
    /\ pc = "consume"
    /\ k <= Len(out)
    /\ Classify(out[k]) = a

\* Ok(resp): the file is created and the body written.
WriteFile ==
    /\ AtItem("write")
    /\ parent(path(inputs[k], formatted_path)) \in dirs
    /\ files' = WriteAll(files, path(inputs[k], formatted_path), out[k].body)
    /\ log' = Append(log, Event("write", k))
    /\ k' = k + 1
    /\ UNCHANGED <<run, start, first, session_token, inputs, formatted_path, pc, out, reqs, out_err,
                   dirs, result>>

\* File::create fails because the parent directory does not exist.
CreateFileNoDir ==
    /\ AtItem("write")
    /\ parent(path(inputs[k], formatted_path)) \notin dirs
    /\ pc' = "aborted"
    /\ result' = Failed("io: File::create: not found")
    /\ log' = Append(log, Event("create_enoent", k))
    /\ UNCHANGED <<run, start, first, session_token, inputs, formatted_path, out, reqs, k, out_err,
                   dirs, files>>

\* A mutant of CreateFileFails: the error is dropped and the loop goes on.
CreateFileFailsIgnored ==
    /\ AtItem("write")
    /\ parent(path(inputs[k], formatted_path)) \in dirs
    /\ log' = Append(log, Event("create_eio", k))
    /\ k' = k + 1
    /\ UNCHANGED <<run, start, first, session_token, inputs, formatted_path, pc, out, reqs, out_err,
                   dirs, files, result>>

\* File::create fails for another reason (a read-only directory, ...).
CreateFileFails ==
    /\ AtItem("write")
    /\ parent(path(inputs[k], formatted_path)) \in dirs
    /\ pc' = "aborted"
    /\ result' = Failed("io: File::create")
    /\ log' = Append(log, Event("create_eio", k))
    /\ UNCHANGED <<run, start, first, session_token, inputs, formatted_path, out, reqs, k, out_err,
                   dirs, files>>

\* File::create succeeds and write_all fails.
WriteAllFails ==
    /\ AtItem("write")
    /\ parent(path(inputs[k], formatted_path)) \in dirs
    /\ files' = Truncate(files, path(inputs[k], formatted_path))
    /\ pc' = "aborted"
    /\ result' = Failed("io: write_all")
    /\ log' = Append(log, Event("write_eio", k))
    /\ UNCHANGED <<run, start, first, session_token, inputs, formatted_path, out, reqs, k, out_err,
                   dirs>>

\* Err(Status(404, _)): a warning is pushed.
Warn ==
    /\ AtItem("warn")
    /\ out_err' = Append(out_err, Warning(inputs[k]))
    /\ log' = Append(log, Event("warn", k))
    /\ k' = k + 1
    /\ UNCHANGED <<run, start, first, session_token, inputs, formatted_path, pc, out, reqs,
                   dirs, files, result>>

\* A mutant of Bail: the error is recorded and the loop goes on.
BailAndGoOn ==
    /\ AtItem("bail")
    /\ result' = Failed(BailText(inputs[k], out[k].code))
    /\ log' = Append(log, Event("bail", k))
    /\ k' = k + 1
    /\ UNCHANGED <<run, start, first, session_token, inputs, formatted_path, pc, out, reqs, out_err,
                   dirs, files>>

\* A mutant of Bail: the files on disk are put back as they were before the run.
BailRollback ==
    /\ AtItem("bail")
    /\ pc' = "aborted"
    /\ result' = Failed(BailText(inputs[k], out[k].code))
    /\ log' = Append(log, Event("bail", k))
    /\ files' = start.files
    /\ UNCHANGED <<run, start, first, session_token, inputs, formatted_path, out, reqs, k, out_err,
                   dirs>>

\* Err(Status(code, _)) with another code: bail!
Bail ==
    /\ AtItem("bail")
    /\ pc' = "aborted"
    /\ result' = Failed(BailText(inputs[k], out[k].code))
    /\ log' = Append(log, Event("bail", k))
    /\ UNCHANGED <<run, start, first, session_token, inputs, formatted_path, out, reqs, k, out_err,
                   dirs, files>>

\* Err of another kind: the if let does not match, and nothing is done.
Ignore ==
    /\ AtItem("ignore")
    /\ log' = Append(log, Event("ignore", k))
    /\ k' = k + 1
    /\ UNCHANGED <<run, start, first, session_token, inputs, formatted_path, pc, out, reqs, out_err,
                   dirs, files, result>>

\* The loop is over: Ok(out_err).
Return ==
    /\ pc = "consume"
    /\ k > Len(out)
    /\ pc' = "completed"
    /\ result' = Completed(out_err)
    /\ UNCHANGED <<run, start, first, session_token, inputs, formatted_path, out, reqs, k, out_err,
                   dirs, files, log>>

Next ==
    \/ MainNoToken
    \/ MainCallDownload
    \/ DownloadNoInput
    \/ CreateDirAll
    \/ CreateDirAllFails
    \/ FetchCall
    \/ FetchReturn
    \/ FetchDone
    \/ WriteFile
    \/ CreateFileNoDir
    \/ CreateFileFails
    \/ WriteAllFails
    \/ Warn
    \/ Bail
    \/ Ignore
    \/ Return

Spec == Init /\ [][Next]_vars

\* The thread is never suspended for good: a blocking call returns within its
\* timeouts (api.rs:10-11), and every other step is straight-line code.
FairSpec == Spec /\ WF_vars(Next)

----------------------------------------------------------------------------
(* A second run of the program *)

\* What the run that is over received and left.
Snapshot ==
    [replies |-> [j \in 1..Len(reqs) |-> reqs[j].reply], files |-> files,
     result |-> result, out_err |-> out_err, log |-> log]

\* main starts again: nothing of the previous process is kept but the disk.
Restart ==
    /\ first' = Snapshot
    /\ pc' = "main"
    /\ out' = <<>>
    /\ reqs' = <<>>
    /\ k' = 0
    /\ out_err' = <<>>
    /\ result' = NoResult
    /\ log' = <<>>
    /\ UNCHANGED <<inputs, formatted_path, start>>

\* The batch that completed is run again, on the disk it left.
RunAgain ==
    /\ run = "first"
    /\ pc = "completed"
    /\ run' = "again"
    /\ Restart
    /\ UNCHANGED <<session_token, dirs, files>>

\* The same batch is run with another credential, from the same disk.
RunWithOtherToken ==
    /\ run = "first"
    /\ pc \in {"completed", "aborted"}
    /\ k >= 1
    /\ run' = "other"
    /\ session_token' \in OtherTokens
    /\ dirs' = start.dirs
    /\ files' = start.files
    /\ Restart

NextAgain == Next \/ RunAgain

SpecAgain == Init /\ [][NextAgain]_vars

NextOther == Next \/ RunWithOtherToken

SpecOther == Init /\ [][NextOther]_vars

----------------------------------------------------------------------------
(* Vocabulary of the properties *)

Terminal == pc \in {"completed", "aborted"}

\* fetch_inputs has returned (download_inputs' loop has started).
Fetched == k >= 1

\* The operations of the history that concern the identifier at position j.
EventsOf(j, ops) == {n \in 1..Len(log) : log[n].idx = j /\ log[n].op \in ops}

\* Operations that touch the identifier's file or record a warning for it.
TouchOps == {"write", "write_eio", "warn"}

\* Operations by which a write fails.
WriteFailOps == {"create_enoent", "create_eio", "write_eio"}

\* Operations that abort the loop.
AbortOps == WriteFailOps \cup {"bail"}

FileOf(j) == path(inputs[j], formatted_path)

\* The file of the identifier at position j holds the body fetched for it.
Saved(j) ==
    /\ out[j].kind = "Ok"
    /\ FileOf(j) \in DOMAIN files
    /\ files[FileOf(j)] = out[j].body

IsHardStatus(resp) == resp.kind = "Status" /\ resp.code # 404

IsNotFound(resp) == resp.kind = "Status" /\ resp.code = 404

IsTransport(resp) == resp.kind \in {"Transport", "Io"}

----------------------------------------------------------------------------
\* C1: fetch returns exactly one outcome per submitted identifier, and the
\* outcome at position j is the result of the request made for the identifier
\* at position j, whatever the earlier requests came back with.
C1_OneOutcomePerIdentifier ==
    /\ Len(out) <= Len(reqs)
    /\ \A j \in 1..Len(out) :
          /\ reqs[j].input = inputs[j]
          /\ reqs[j].url = request_url(inputs[j])
          /\ out[j] = FetchBody(reqs[j].reply)
    /\ pc = "fetch" => Len(out) = Len(reqs)
    /\ Fetched => Len(out) = Len(inputs)

C1_Witness ==
    /\ Fetched
    /\ Len(inputs) = 3
    /\ out[1].kind = "Transport"
    /\ IsHardStatus(out[2])
    /\ out[3] = Ok("c")
    /\ inputs[3].day = 1

\* C2: a transport-level failure for identifier j is a hard failure: download
\* does not complete, and nothing after j is written or warned about.
C2_TransportFailureAborts ==
    \A j \in 1..Len(out) :
        IsTransport(out[j]) =>
            /\ pc # "completed"
            /\ \A m \in (j + 1)..Len(out) : EventsOf(m, TouchOps) = {}

\* C3: a non-404 error status for identifier j is a hard failure: download
\* returns an error, and no identifier after j is written or warned about.
C3_HardStatusAborts ==
    \A j \in 1..Len(out) :
        IsHardStatus(out[j]) =>
            /\ pc # "completed"
            /\ k <= j
            /\ pc = "aborted" => result.tag = "Err"
            /\ (pc = "aborted" /\ k = j) =>
                  result = Failed(BailText(inputs[j], out[j].code))
            /\ \A m \in (j + 1)..Len(out) :
                  /\ EventsOf(m, TouchOps) = {}
                  /\ Warning(inputs[m]) \notin {out_err[n] : n \in 1..Len(out_err)}

C3_Witness ==
    /\ pc = "aborted"
    /\ Len(out) = 3
    /\ out[1] = Ok("a")
    /\ Saved(1)
    /\ IsHardStatus(out[2])
    /\ IsNotFound(out[3])
    /\ k = 2

\* C4: a 404 for identifier j is a soft failure: when the loop has handled j,
\* exactly one warning was appended for j and no file was written for j; the
\* batch is never aborted at j; and when download completes, every identifier
\* after j whose request succeeded is written and every later 404 is warned.
C4_NotFoundIsSoft ==
    \A j \in 1..Len(out) :
        IsNotFound(out[j]) =>
            /\ ~(pc = "aborted" /\ k = j)
            /\ EventsOf(j, AbortOps \cup {"write"}) = {}
            /\ k > j =>
                  /\ Cardinality(EventsOf(j, {"warn"})) = 1
                  /\ Cardinality({n \in 1..Len(out_err) :
                                     out_err[n] = Warning(inputs[j])}) = 1
            /\ pc = "completed" =>
                  \A m \in (j + 1)..Len(out) :
                      /\ out[m].kind = "Ok" => Saved(m)
                      /\ IsNotFound(out[m]) => EventsOf(m, {"warn"}) # {}

C4_Witness ==
    /\ pc = "completed"
    /\ Len(out) = 3
    /\ IsNotFound(out[1])
    /\ IsNotFound(out[2])
    /\ out[3] = Ok("c")
    /\ Saved(3)
    /\ out_err = <<Warning(inputs[1]), Warning(inputs[2])>>
    /\ FileOf(1) \notin DOMAIN files

\* C5 as stated: when the write for identifier j fails, no request for an
\* identifier after j has been issued.
C5_NoRequestAfterFailedWrite ==
    \A n \in 1..Len(log) :
        log[n].op \in WriteFailOps => Len(reqs) <= log[n].idx

\* C5 as amended: a write failure for identifier j aborts the batch: download
\* returns an error, the failure is the last operation of the run (no request,
\* write or warning follows it), and nothing after j is written or warned
\* about; the requests for all identifiers, those after j included, had been
\* issued and had returned before the write was attempted.
C5_WriteFailureAborts ==
    \A n \in 1..Len(log) :
        log[n].op \in WriteFailOps =>
            /\ n = Len(log)
            /\ pc = "aborted"
            /\ result.tag = "Err"
            /\ k = log[n].idx
            /\ \A m \in (log[n].idx + 1)..Len(out) : EventsOf(m, TouchOps) = {}
            /\ Len(reqs) = Len(inputs)
            /\ \A j \in 1..Len(reqs) : reqs[j].reply # Pending

C5_Witness ==
    /\ pc = "aborted"
    /\ Len(inputs) = 3
    /\ Len(log) > 0
    /\ log[Len(log)] = Event("write_eio", 1)
    /\ Len(reqs) = 3
    /\ out[2] = Ok("c")
    /\ FileOf(1) \in DOMAIN files
    /\ files[FileOf(1)] = ""

\* C6: when download completes, the warning list is empty if and only if
\* every identifier's file was written with its fetched body.
C6_EmptyWarningsIffAllSaved ==
    pc = "completed" =>
        (out_err = <<>> <=> \A j \in 1..Len(inputs) : j <= Len(out) /\ Saved(j))

\* C7: for a batch whose outcomes are only 2xx and 404, and in which no
\* file operation is failed by the environment, download completes, the files
\* of the 2xx identifiers hold their own bodies, no operation touches the file
\* of a 404 identifier, and the warnings are those of the 404 identifiers, in
\* submission order.
C7_OkAndNotFoundBatch ==
    LET notFound == {j \in 1..Len(out) : IsNotFound(out[j])}
        Rank(j)  == Cardinality({m \in notFound : m <= j})
    IN  ( /\ Fetched
          /\ Terminal
          /\ \A j \in 1..Len(out) : out[j].kind = "Ok" \/ IsNotFound(out[j])
          /\ \A n \in 1..Len(log) : log[n].op \notin {"create_eio", "write_eio"} )
        => /\ pc = "completed"
           /\ result = Completed(out_err)
           /\ \A j \in 1..Len(out) :
                 /\ out[j].kind = "Ok" => Saved(j)
                 /\ IsNotFound(out[j]) => EventsOf(j, {"write", "write_eio"}) = {}
           /\ Len(out_err) = Cardinality(notFound)
           /\ \A j \in notFound : out_err[Rank(j)] = Warning(inputs[j])

\* C8: whenever the loop is about to write the file of an identifier whose
\* outcome is Ok, the parent directory of that file exists.
C8_ParentDirectoryExists ==
    AtItem("write") => parent(FileOf(k)) \in dirs

\* C9: with no session token in the credential store the batch fails with the
\* precondition error, and no request is issued, no directory created and no
\* file written.
C9_NoTokenNoWork ==
    /\ [](session_token = NoToken =>
            /\ pc \in {"main", "aborted"}
            /\ pc = "aborted" => result = Failed(NoTokenText)
            /\ reqs = <<>>
            /\ out = <<>>
            /\ log = <<>>)
    /\ [][session_token = NoToken => dirs' = dirs /\ files' = files]_vars

C9_Witness ==
    /\ session_token = NoToken
    /\ pc = "aborted"
    /\ result = Failed(NoTokenText)
    /\ Len(inputs) = 3
    /\ dirs = {<<>>}

\* C10: download_inputs called with an empty list returns the precondition
\* error, and no request is issued, no directory created and no file written.
C10_NoInputNoWork ==
    /\ [](inputs = <<>> =>
            /\ pc \in {"main", "download", "aborted"}
            /\ (pc = "aborted" /\ session_token # NoToken) =>
                  result = Failed(NoInputText)
            /\ reqs = <<>>
            /\ out = <<>>
            /\ log = <<>>)
    /\ [][inputs = <<>> => dirs' = dirs /\ files' = files]_vars

C10_Witness ==
    /\ inputs = <<>>
    /\ session_token \in Tokens
    /\ pc = "aborted"
    /\ result = Failed(NoInputText)
    /\ dirs = {<<>>}

\* Operations on the file of an identifier.
FileOps == {"write", "write_eio", "create_eio", "create_enoent"}

\* C11: the parent directory of the first identifier's path exists before any
\* file operation of the batch; and when create_dir_all fails, download
\* returns the filesystem error at once: nothing else has been or is done, no
\* request is issued and no file is written.
C11_TargetDirectoryFirst ==
    /\ \A n \in 1..Len(log) :
          log[n].op \in FileOps =>
              /\ log[1] = Event("mkdir", 0)
              /\ parent(FileOf(1)) \in dirs
    /\ \A n \in 1..Len(log) :
          log[n].op = "mkdir_err" =>
              /\ log = <<Event("mkdir_err", 0)>>
              /\ pc = "aborted"
              /\ result = Failed("io: create_dir_all")
              /\ reqs = <<>>
              /\ out = <<>>
              /\ files = start.files

C11_Witness ==
    /\ pc = "aborted"
    /\ log = <<Event("mkdir_err", 0)>>
    /\ Len(inputs) = 3
    /\ start.dirs = {<<>>}
    /\ dirs = {<<>>, <<inputs[1].year>>}

\* The step by which the loop aborts.
AbortStep == pc = "consume" /\ pc' = "aborted"

\* The files written earlier in the batch hold the bodies written.
EarlierFilesKept ==
    (pc = "aborted" /\ Fetched) =>
        \A j \in 1..(k - 1) : out[j].kind = "Ok" => Saved(j)

\* C12 as stated: when the batch aborts at identifier k, the files written
\* earlier in the batch still hold their bodies, and the abort step changes
\* no file.
C12_AbortChangesNoFile ==
    /\ []EarlierFilesKept
    /\ [][AbortStep => files' = files]_vars

\* C12 as amended: when the batch aborts at identifier k, the files written
\* earlier in the batch still hold their bodies, and the abort step changes no
\* file other than the file of k itself, which a write_all that fails after
\* File::create succeeded leaves created or truncated.
C12_NoRollback ==
    /\ []EarlierFilesKept
    /\ [][AbortStep =>
            /\ DOMAIN files \subseteq DOMAIN files'
            /\ \A p \in DOMAIN files' :
                  p # FileOf(k) => p \in DOMAIN files /\ files'[p] = files[p]
            /\ files' # files => log'[Len(log')] = Event("write_eio", k)]_vars

C12_Witness ==
    /\ pc = "aborted"
    /\ k = 3
    /\ Saved(1)
    /\ Saved(2)
    /\ log[Len(log)] = Event("write_eio", 3)
    /\ FileOf(3) \in DOMAIN start.files
    /\ start.files[FileOf(3)] = "old"
    /\ files[FileOf(3)] = ""

\* C13: when a batch that completed is run again with the same identifiers
\* and the same responses, every file holds what it held after the first run
\* (unless a write of the second run fails), and a second run that completes
\* returns what the first returned: a write replaces the file's content.
C13_RerunKeepsContents ==
    run = "again" =>
        /\ (\A n \in 1..Len(log) : log[n].op # "write_eio") => files = first.files
        /\ \A j \in 1..Len(out) : out[j] = FetchBody(first.replies[j])
        /\ pc = "completed" =>
              /\ result = first.result
              /\ \A j \in 1..Len(out) : out[j].kind = "Ok" => Saved(j)

C13_Witness ==
    /\ run = "again"
    /\ pc = "completed"
    /\ Len(inputs) = 3
    /\ \A j \in 1..3 : Saved(j) /\ EventsOf(j, {"write"}) # {}
    /\ start.files = NoFiles
    /\ files = first.files

\* C14: two runs that differ only in the credential, receive the same
\* responses and meet the same file system outcomes return the same warnings
\* and the same error.
C14_ResultIndependentOfToken ==
    (run = "other" /\ Terminal /\ log = first.log) =>
        /\ result = first.result
        /\ out_err = first.out_err

C14_Witness ==
    /\ run = "other"
    /\ pc = "aborted"
    /\ log = first.log
    /\ Len(out) = 3
    /\ IsNotFound(out[1])
    /\ Saved(2)
    /\ IsHardStatus(out[3])
    /\ result = Failed(BailText(inputs[3], 500))
    /\ out_err = <<Warning(inputs[1])>>
    /\ \A j \in 1..3 : reqs[j].cookie = Cookie("kot")

\* Operations of download_inputs' loop on one result.
ItemOps == FileOps \cup {"warn", "bail", "ignore"}

Positions(ops) == {n \in 1..Len(log) : log[n].op \in ops}

\* C15: requests are issued one at a time in identifier order, each returns
\* before anything else happens, the results are handled one at a time in
\* identifier order, the file of an identifier is written only after its own
\* request has returned, and at most one request is in flight, during which
\* nothing is written.
C15_StrictlySequential ==
    /\ \A n \in Positions({"request"}) :
          /\ log[n].idx = Cardinality({m \in Positions({"request"}) : m <= n})
          /\ reqs[log[n].idx].input = inputs[log[n].idx]
          /\ IF n = Len(log)
             THEN pc = "call" /\ reqs[log[n].idx].reply = Pending
             ELSE log[n + 1] = Event("response", log[n].idx)
    /\ \A n \in Positions({"response"}) :
          n > 1 /\ log[n - 1] = Event("request", log[n].idx)
    /\ \A j \in 1..Len(reqs) : reqs[j].reply = Pending => (j = Len(reqs) /\ pc = "call")
    /\ pc = "call" => reqs[Len(reqs)].reply = Pending
    /\ \A n, m \in Positions(ItemOps) : n < m => log[n].idx < log[m].idx
    /\ \A n \in Positions(ItemOps) :
          \E m \in Positions({"response"}) : m < n /\ log[m].idx = log[n].idx

C15_Witness ==
    /\ pc = "completed"
    /\ log = << Event("mkdir", 0),
                Event("request", 1), Event("response", 1),
                Event("request", 2), Event("response", 2),
                Event("request", 3), Event("response", 3),
                Event("write", 1), Event("write", 2), Event("write", 3) >>
    /\ inputs[1].day = 3

\* C16: within one batch at most one request is issued for each identifier,
\* whatever it came back with; when fetch_inputs has returned, exactly one.
C16_NoRetry ==
    /\ Len(reqs) <= Len(inputs)
    /\ \A j \in 1..Len(inputs) :
          /\ Cardinality({n \in 1..Len(reqs) : reqs[n].input = inputs[j]}) <= 1
          /\ Cardinality(EventsOf(j, {"request"})) <= 1
          /\ Fetched =>
                Cardinality({n \in 1..Len(reqs) : reqs[n].input = inputs[j]}) = 1

C16_Witness ==
    /\ Terminal
    /\ Len(reqs) = 3
    /\ out[1].kind = "Transport"
    /\ IsHardStatus(out[2])
    /\ IsNotFound(out[3])
    /\ \A j \in 1..3 : Cardinality(EventsOf(j, {"request"})) = 1

\* The state of the batch: Pending until download_inputs is called, Running
\* until it returns, then Completed or Aborted by what it returned.
BatchState ==
    IF result.tag = "Ok" THEN "Completed"
    ELSE IF result.tag = "Err" THEN "Aborted"
    ELSE IF pc = "main" THEN "Pending"
    ELSE "Running"

\* C17: a batch (a call of download_inputs, so with a session token) goes
\* Pending -> Running -> Completed or Aborted; it reaches a terminal state, and
\* only one; and in a terminal state no request is issued, no file or
\* directory is written and the warnings and the result no longer change.
C17_BatchStateMachine ==
    /\ [](/\ pc = "completed" <=> result.tag = "Ok"
          /\ pc = "aborted" <=> result.tag = "Err"
          /\ result.tag = "Ok" => result.warnings = out_err)
    /\ [][/\ session_token # NoToken =>
                <<BatchState, BatchState'>> \in
                    { <<"Pending", "Running">>, <<"Running", "Running">>,
                      <<"Running", "Completed">>, <<"Running", "Aborted">> }
          /\ BatchState \in {"Completed", "Aborted"} =>
                UNCHANGED <<result, reqs, out, out_err, files, dirs, log>>]_vars
    /\ <>(BatchState \in {"Completed", "Aborted"})

C17_Witness ==
    /\ BatchState = "Completed"
    /\ Len(out) = 3
    /\ result = Completed(<<Warning(inputs[2])>>)
    /\ Saved(1)
    /\ Saved(3)

\* C18: when download_inputs handles the first result, the request of every
\* identifier, also of those after one whose request failed, has been issued
\* and has returned.
C18_FetchBeforeConsume ==
    \A n \in Positions(ItemOps) :
        /\ Len(reqs) = Len(inputs)
        /\ \A j \in 1..Len(reqs) : reqs[j].reply # Pending
        /\ \A j \in 1..Len(inputs) :
              /\ \E m \in EventsOf(j, {"request"}) : m < n
              /\ \E m \in EventsOf(j, {"response"}) : m < n
        /\ \A m \in Positions({"request", "response"}) : m < n

C18_Witness ==
    /\ pc = "consume"
    /\ k = 2
    /\ Len(inputs) = 3
    /\ log[Len(log)] = Event("ignore", 1)
    /\ out[1].kind = "Transport"
    /\ out[2] = Ok("a")
    /\ out[3] = Ok("c")
    /\ reqs[3].reply # Pending

====
